---- MODULE Spec2Model ----
(***************************************************************************)
(* A model of the godog feature suite (suite.go): the step registry, the   *)
(* first-match resolution of runStep, the skip-on-failure loop of          *)
(* runSteps/skipSteps, the per-feature loop of runFeature and the          *)
(* sequential loop of Run.  The pieces of the runner that live outside     *)
(* suite.go (configuration validation, outcome totals, strict mode, exit   *)
(* status, the concurrent coordinator) are modelled from the written       *)
(* specification and are marked as such where they are defined.            *)
(***************************************************************************)
EXTENDS Integers, Sequences, FiniteSets, TLC

VARIABLES steps, features, cfg, phase, fi, r, fmtout, calls, tally, exit,
          wk, buf, flushed, progress

vars == <<steps, features, cfg, phase, fi, r, fmtout, calls, tally, exit,
          wk, buf, flushed, progress>>

\* ---------------------------------------------------------------- bounds
MaxDefs == 2
MaxWorkers == 2
MaxCount == 2
MaxOutcomes == 150

\* ------------------------------------------------------------ step texts
ta == <<"a">>
t7 == <<"7">>
ta7 == <<"a", "7">>

Texts == {ta, t7, ta7}

Digits == {"0", "1", "2", "3", "4", "5", "6", "7", "8", "9"}

\* ------------------------------------------------- regular expressions
\* A pattern of the form  ^?(lit)$?  : an optional start anchor, one capture
\* group holding a literal, an optional end anchor.
PatA == [pre |-> TRUE, lit |-> ta, post |-> TRUE]
PatAny7 == [pre |-> FALSE, lit |-> t7, post |-> FALSE]
PatAnyA == [pre |-> FALSE, lit |-> ta, post |-> FALSE]
Patterns == {PatA, PatAny7, PatAnyA}

\* the literal occurs in text at offset i (1-based)
OccursAt(lit, text, i) ==
    /\ i >= 1
    /\ i + Len(lit) - 1 <= Len(text)
    /\ \A j \in 1..Len(lit) : text[i + j - 1] = lit[j]

\* offsets at which the expression matches the text
MatchOffsets(expr, text) ==
    {i \in 1..Len(text) :
        /\ OccursAt(expr.lit, text, i)
        /\ expr.pre => i = 1
        /\ expr.post => i + Len(expr.lit) - 1 = Len(text)}

\* regexp.FindStringSubmatch: <<>> when there is no match, otherwise the
\* leftmost match followed by the text of the capture group
Leftmost(offs) == CHOOSE x \in offs : \A y \in offs : x <= y

Submatch(expr, text, offs) ==
    IF offs = {} THEN <<>>
    ELSE <<SubSeq(text, Leftmost(offs), Leftmost(offs) + Len(expr.lit) - 1),
           SubSeq(text, Leftmost(offs), Leftmost(offs) + Len(expr.lit) - 1)>>

FindStringSubmatch(expr, text) == Submatch(expr, text, MatchOffsets(expr, text))

\* ------------------------------------------------------------ arguments
\* strconv.ParseInt(s, 10, 0) and strconv.ParseFloat(s, 64) on the texts of
\* the model: a non-empty run of decimal digits parses, anything else fails
ParsesAsNumber(a) == Len(a) > 0 /\ \A i \in 1..Len(a) : a[i] \in Digits

\* Arg.Int: the value, or a panic whose value is a string
ArgInt(a) == IF ParsesAsNumber(a) THEN "value" ELSE "panicString"

\* Arg.Float: the value, or a panic whose value is a string
ArgFloat(a) == IF ParsesAsNumber(a) THEN "value" ELSE "panicString"

\* ------------------------------------------------------------- handlers
\* What a StepHandler does when HandleStep is called:
\*   "nil"       returns nil
\*   "err"       returns an ordinary error
\*   "pending"   returns the errPending sentinel
\*   "panicErr"  panics with a value that is an error
\*   "argInt"    calls args[0].Int() and returns nil
\*   "argFloat"  calls args[0].Float() and returns nil
Handlers == {"nil", "err", "pending", "panicErr", "argInt", "argFloat"}

\* HandleStep(args...): a returned error ("nil" for none) or a panic
HandleStep(h, args) ==
    CASE h = "nil" -> [ret |-> "nil", panic |-> "none"]
      [] h = "err" -> [ret |-> "error", panic |-> "none"]
      [] h = "pending" -> [ret |-> "errPending", panic |-> "none"]
      [] h = "panicErr" -> [ret |-> "nil", panic |-> "panicError"]
      [] h = "argInt" ->
            IF ArgInt(args[1]) = "value"
            THEN [ret |-> "nil", panic |-> "none"]
            ELSE [ret |-> "nil", panic |-> "panicString"]
      [] h = "argFloat" ->
            IF ArgFloat(args[1]) = "value"
            THEN [ret |-> "nil", panic |-> "none"]
            ELSE [ret |-> "nil", panic |-> "panicString"]

Def(h, expr) == [handler |-> h, expr |-> expr]

\* the step definitions the registrations are drawn from
Definitions ==
    {Def("nil", PatA), Def("nil", PatAny7), Def("nil", PatAnyA),
     Def("err", PatA), Def("err", PatAny7),
     Def("pending", PatAnyA), Def("pending", PatAny7),
     Def("panicErr", PatAnyA), Def("panicErr", PatAny7),
     Def("argInt", PatAny7), Def("argInt", PatAnyA),
     Def("argFloat", PatAny7), Def("argFloat", PatA)}

\* ------------------------------------------------------------- features
NoBackground == [has |-> FALSE, steps |-> <<>>]
Bg(ss) == [has |-> TRUE, steps |-> ss]

FeatBg2 == [background |-> Bg(<<t7, ta7>>), scenarios |-> <<(<<ta>>), (<<t7>>)>>]
FeatPlain == [background |-> NoBackground, scenarios |-> <<(<<ta, ta7, t7>>)>>]
FeatBg0 == [background |-> Bg(<<t7>>), scenarios |-> <<>>]

FeatureLists == {<<FeatBg2, FeatPlain>>, <<FeatBg0, FeatPlain>>}

\* --------------------------------------------------------- step registry
\* suite.Step: append the definition to s.steps
StepAppend(defs, expr, h) == Append(defs, Def(h, expr))

\* the scan of runStep over s.steps from index i on: the index of the first
\* definition whose expression matches the text, 0 when the scan runs out
RECURSIVE ScanFrom(_, _, _)
ScanFrom(defs, text, i) ==
    IF i > Len(defs) THEN 0
    ELSE IF Len(FindStringSubmatch(defs[i].expr, text)) > 0 THEN i
    ELSE ScanFrom(defs, text, i + 1)

\* a scan that keeps the last matching definition instead of the first
MatchLast(defs, text) ==
    IF \E i \in 1..Len(defs) : Len(FindStringSubmatch(defs[i].expr, text)) > 0
    THEN CHOOSE i \in 1..Len(defs) :
            /\ Len(FindStringSubmatch(defs[i].expr, text)) > 0
            /\ \A j \in (i + 1)..Len(defs) :
                  Len(FindStringSubmatch(defs[j].expr, text)) = 0
    ELSE 0

Match(defs, text) == ScanFrom(defs, text, 1)

\* the arguments built from m[1:]
MatchArgs(defs, text, m) == Tail(FindStringSubmatch(defs[m].expr, text))

\* the deferred function of runStep: recover() and the type assertion
\* e.(error).  A panic value that is an error becomes the step's error; for
\* any other value the assertion itself panics and the panic leaves runStep.
Recover(p) ==
    IF p = "panicError" THEN [recovered |-> TRUE, err |-> "panicError"]
    ELSE [recovered |-> FALSE, err |-> "nil"]

\* suite.runStep: the formatter method called ("none" when the call never
\* happens), the matched definition (0 for none), the returned error,
\* whether a handler was invoked and whether a panic left the function
StepResult(event, def, err, called, crash) ==
    [event |-> event, def |-> def, err |-> err, called |-> called, crash |-> crash]

\* runStep, lines 147-159, for the matched definition m whose handler did res:
\* a panic goes through the deferred function, a returned error is Failed,
\* nil is Passed
runStepHandled(m, res) ==
    IF res.panic /= "none"
    THEN IF Recover(res.panic).recovered
         THEN StepResult("Failed", m, Recover(res.panic).err, TRUE, FALSE)
         ELSE StepResult("none", m, "nil", TRUE, TRUE)
    ELSE IF res.ret /= "nil"
         THEN StepResult("Failed", m, res.ret, TRUE, FALSE)
         ELSE StepResult("Passed", m, "nil", TRUE, FALSE)

\* an unmatched step that is reported but does not return an error
runStepMatchedNoError(defs, text, m) ==
    IF m = 0
    THEN StepResult("Pending", 0, "nil", FALSE, FALSE)
    ELSE runStepHandled(m, HandleStep(defs[m].handler, MatchArgs(defs, text, m)))

\* runStep, lines 142-154, for the result m of the scan: with no match
\* s.fmt.Pending and errPending, otherwise the handler is invoked
runStepMatched(defs, text, m) ==
    IF m = 0
    THEN StepResult("Pending", 0, "errPending", FALSE, FALSE)
    ELSE runStepHandled(m, HandleStep(defs[m].handler, MatchArgs(defs, text, m)))

runStep(defs, text) == runStepMatched(defs, text, Match(defs, text))

\* ------------------------------------------------------ formatter events
\* One call of a Formatter method.  part is "feature", "background" or
\* "scenario"; si is the scenario of the loop iteration the call belongs to
\* (0 for the feature node); k is the step's index (0 for a node).
Event(type, fidx, part, si, k, def, err) ==
    [type |-> type, f |-> fidx, part |-> part, si |-> si, k |-> k,
     def |-> def, err |-> err]

NodeEvent(fidx, part, si) == Event("Node", fidx, part, si, 0, 0, "nil")

Outcomes == {"Passed", "Failed", "Skipped", "Pending", "Undefined"}

\* ------------------------------------------------------------ the engine
\* The position of one execution of runFeature:
\*   pc      the next thing runFeature does
\*   si      index of the scenario of the current loop iteration
\*   k       index of the next step of the list being walked
\*   failed  the variable failed of runFeature
\*   sfailed the variable failed of the running call of runSteps
\* At the entry of runFeature both flags hold the zero value of their
\* declaration (var failed bool).
StartRunner == [pc |-> "node", si |-> 0, k |-> 0, failed |-> FALSE, sfailed |-> FALSE]
IdleRunner == [pc |-> "end", si |-> 0, k |-> 0, failed |-> FALSE, sfailed |-> FALSE]

Quiet(rr) == [r |-> rr, ev |-> <<>>, call |-> <<>>]

\* a loop head that forgets the failure of the Background between iterations
LoopHeadForgets(f, si, failed) ==
    IF si > Len(f.scenarios)
    THEN [pc |-> "end", si |-> si, k |-> 0, failed |-> failed, sfailed |-> FALSE]
    ELSE IF f.background.has
    THEN [pc |-> "bgnode", si |-> si, k |-> 0, failed |-> FALSE, sfailed |-> FALSE]
    ELSE [pc |-> "scnode", si |-> si, k |-> 0, failed |-> failed, sfailed |-> FALSE]

\* the head of the scenario loop of runFeature for iteration si
LoopHead(f, si, failed) ==
    IF si > Len(f.scenarios)
    THEN [pc |-> "end", si |-> si, k |-> 0, failed |-> failed, sfailed |-> FALSE]
    ELSE IF f.background.has /\ ~failed
    THEN [pc |-> "bgnode", si |-> si, k |-> 0, failed |-> failed, sfailed |-> FALSE]
    ELSE [pc |-> "scnode", si |-> si, k |-> 0, failed |-> failed, sfailed |-> FALSE]

\* a call of runStep where only the pending error sets the flag of runSteps
ranStepKeepsGoing(res, fidx, part, si, k) ==
    [ev |-> IF res.event = "none" THEN <<>>
            ELSE <<Event(res.event, fidx, part, si, k, res.def, res.err)>>,
     call |-> IF res.called
              THEN <<[f |-> fidx, part |-> part, si |-> si, k |-> k, def |-> res.def]>>
              ELSE <<>>,
     failed |-> res.err = "errPending",
     crash |-> res.crash]

\* one iteration of the loop of runSteps over list at index k
\* what one call of runStep leaves behind: the formatter call, the handler
\* invocation, whether err /= nil was returned, whether a panic left it
ranStep(res, fidx, part, si, k) ==
    [ev |-> IF res.event = "none" THEN <<>>
            ELSE <<Event(res.event, fidx, part, si, k, res.def, res.err)>>,
     call |-> IF res.called
              THEN <<[f |-> fidx, part |-> part, si |-> si, k |-> k, def |-> res.def]>>
              ELSE <<>>,
     failed |-> res.err /= "nil",
     crash |-> res.crash]

\* a loop that runs every step whatever came before
runStepsIterNoSkip(defs, list, fidx, part, si, k, sfailed) ==
    ranStep(runStep(defs, list[k]), fidx, part, si, k)

runStepsIter(defs, list, fidx, part, si, k, sfailed) ==
    IF sfailed
    THEN [ev |-> <<Event("Skipped", fidx, part, si, k, 0, "nil")>>,
          call |-> <<>>, failed |-> TRUE, crash |-> FALSE]
    ELSE ranStep(runStep(defs, list[k]), fidx, part, si, k)

\* one iteration of the loop of skipSteps
skipStepsIter(fidx, si, k) ==
    [ev |-> <<Event("Skipped", fidx, "scenario", si, k, 0, "nil")>>, call |-> <<>>]

\* a runFeature that runs the Background before it looks at the scenarios
runFeatureNodeBackgroundFirst(f, fidx, rr) ==
    [r |-> IF f.background.has
           THEN [pc |-> "bgnode", si |-> 1, k |-> 0, failed |-> rr.failed,
                 sfailed |-> FALSE]
           ELSE LoopHead(f, 1, rr.failed),
     ev |-> <<NodeEvent(fidx, "feature", 0)>>, call |-> <<>>]

\* runFeature, line 183: s.fmt.Node(f), then the loop starts with the failed
\* declared at line 184
runFeatureNode(f, fidx, rr) ==
    [r |-> LoopHead(f, 1, rr.failed), ev |-> <<NodeEvent(fidx, "feature", 0)>>, call |-> <<>>]

\* runFeature, lines 188-190: s.fmt.Node(f.Background) and the call of
\* runSteps; an empty step list returns false at once
runBackgroundNode(f, fidx, rr) ==
    [r |-> IF Len(f.background.steps) = 0
           THEN [rr EXCEPT !.pc = "scnode", !.failed = FALSE]
           ELSE [rr EXCEPT !.pc = "bgstep", !.k = 1, !.sfailed = FALSE],
     ev |-> <<NodeEvent(fidx, "background", rr.si)>>, call |-> <<>>]

\* runFeature, line 190: one step of runSteps(f.Background.Steps); after the
\* last one its result is assigned to failed
afterBackgroundStep(f, rr, it) ==
    [r |-> IF it.crash THEN [rr EXCEPT !.pc = "crashed"]
           ELSE IF rr.k = Len(f.background.steps)
           THEN [rr EXCEPT !.pc = "scnode", !.k = 0, !.failed = it.failed,
                           !.sfailed = FALSE]
           ELSE [rr EXCEPT !.k = rr.k + 1, !.sfailed = it.failed],
     ev |-> it.ev, call |-> it.call]

runBackgroundStep(defs, f, fidx, rr) ==
    afterBackgroundStep(f, rr,
        runStepsIter(defs, f.background.steps, fidx, "background",
                     rr.si, rr.k, rr.sfailed))

\* runFeature, lines 194-199: s.fmt.Node(scenario) and the choice between
\* skipSteps and runSteps
runScenarioNode(f, fidx, rr) ==
    [r |-> IF Len(f.scenarios[rr.si]) = 0 THEN LoopHead(f, rr.si + 1, rr.failed)
           ELSE IF rr.failed THEN [rr EXCEPT !.pc = "skip", !.k = 1]
           ELSE [rr EXCEPT !.pc = "scstep", !.k = 1, !.sfailed = FALSE],
     ev |-> <<NodeEvent(fidx, "scenario", rr.si)>>, call |-> <<>>]

\* a loop that assigns the result of runSteps(scenario.Steps) to failed
afterScenarioStepKeepsResult(f, rr, it) ==
    [r |-> IF it.crash THEN [rr EXCEPT !.pc = "crashed"]
           ELSE IF rr.k = Len(f.scenarios[rr.si])
           THEN LoopHead(f, rr.si + 1, it.failed)
           ELSE [rr EXCEPT !.k = rr.k + 1, !.sfailed = it.failed],
     ev |-> it.ev, call |-> it.call]

\* runFeature, line 198: one step of runSteps(scenario.Steps); its result is
\* discarded
afterScenarioStep(f, rr, it) ==
    [r |-> IF it.crash THEN [rr EXCEPT !.pc = "crashed"]
           ELSE IF rr.k = Len(f.scenarios[rr.si])
           THEN LoopHead(f, rr.si + 1, rr.failed)
           ELSE [rr EXCEPT !.k = rr.k + 1, !.sfailed = it.failed],
     ev |-> it.ev, call |-> it.call]

runScenarioStep(defs, f, fidx, rr) ==
    afterScenarioStep(f, rr,
        runStepsIter(defs, f.scenarios[rr.si], fidx, "scenario",
                     rr.si, rr.k, rr.sfailed))

\* runFeature, line 196: one step of skipSteps(scenario.Steps)
runScenarioSkip(f, fidx, rr) ==
    [r |-> IF rr.k = Len(f.scenarios[rr.si])
           THEN LoopHead(f, rr.si + 1, rr.failed)
           ELSE [rr EXCEPT !.k = rr.k + 1],
     ev |-> skipStepsIter(fidx, rr.si, rr.k).ev,
     call |-> skipStepsIter(fidx, rr.si, rr.k).call]

\* suite.runFeature: the next formatter call of the execution at rr
runFeature(defs, f, fidx, rr) ==
    CASE rr.pc = "node" -> runFeatureNode(f, fidx, rr)
      [] rr.pc = "bgnode" -> runBackgroundNode(f, fidx, rr)
      [] rr.pc = "bgstep" -> runBackgroundStep(defs, f, fidx, rr)
      [] rr.pc = "scnode" -> runScenarioNode(f, fidx, rr)
      [] rr.pc = "scstep" -> runScenarioStep(defs, f, fidx, rr)
      [] rr.pc = "skip" -> runScenarioSkip(f, fidx, rr)
      [] OTHER -> Quiet(rr)

\* -------------------------------------------------------- configuration
Formats == {"progress", "pretty", "unknown"}
KnownFormats == {"progress", "pretty"}
ConcurrentFormats == {"progress"}

Cfg(format, concurrency, strict, pathOk) ==
    [format |-> format, concurrency |-> concurrency, strict |-> strict,
     pathOk |-> pathOk]

\* the configurations the runs are started with
Configs ==
    {Cfg("progress", 1, FALSE, TRUE), Cfg("progress", 1, TRUE, TRUE),
     Cfg("unknown", 1, FALSE, TRUE), Cfg("progress", 1, FALSE, FALSE),
     Cfg("pretty", MaxWorkers, FALSE, TRUE)}
    \cup {Cfg("progress", c, st, TRUE) : c \in 2..MaxWorkers, st \in BOOLEAN}

DefaultCfg == [format |-> "progress", concurrency |-> 1, strict |-> FALSE,
               pathOk |-> TRUE]

\* cfg.validate() and the error of cfg.features(): an unknown formatter name,
\* a formatter without support for concurrency asked to run concurrently,
\* an unavailable feature path
ConfigError(c) ==
    \/ c.format \notin KnownFormats
    \/ c.concurrency > 1 /\ c.format \notin ConcurrentFormats
    \/ ~c.pathOk

\* the value of exit while the process has not exited
NoExit == 0 - 1

exitSuccess == 0
exitFailure == 1
exitOptionError == 2

\* ------------------------------------------------------- outcome totals
CountOf(evs, t) == Cardinality({i \in DOMAIN evs : evs[i].type = t})

\* the per-outcome totals of the events a formatter has received
Counts(evs) ==
    [passed |-> CountOf(evs, "Passed"), failed |-> CountOf(evs, "Failed"),
     skipped |-> CountOf(evs, "Skipped"), pending |-> CountOf(evs, "Pending"),
     undefined |-> CountOf(evs, "Undefined")]

ZeroTally == [passed |-> 0, failed |-> 0, skipped |-> 0, pending |-> 0, undefined |-> 0]

\* a decision that forgets the undefined steps in strict mode
runFailedNoUndefined(t, strict) ==
    IF t.failed > 0 THEN TRUE
    ELSE strict /\ t.pending > 0

\* the result of runner.run: TRUE when the run counts as failed
runFailed(t, strict) ==
    IF t.failed > 0 THEN TRUE
    ELSE strict /\ (t.pending > 0 \/ t.undefined > 0)

\* the exit status of a run that was dispatched
ExitStatus(t, strict) == IF runFailed(t, strict) THEN exitFailure ELSE exitSuccess

\* ------------------------------------------------ the progress formatter
\* (modelled from the specification: the formatter is not in suite.go)
\* the number of outcome symbols in one row of the progress view
stepsPerRow == 70

\* the state of the progress formatter:
\*   steps  the number of step outcomes received so far
\*   row    the index of the row the last outcome was written to
\*   rows   the counters written at the end of the rows closed so far
\*   src    the worker that produced the last outcome
\*   done   whether the run-complete call was made
ZeroProgress == [steps |-> 0, row |-> 0, rows |-> <<>>, src |-> 0, done |-> FALSE]

\* a progress view that starts a new row whenever the producing worker changes
progressStepPerWorker(p, w) ==
    [steps |-> p.steps + 1,
     row |-> Len(p.rows) + 1,
     rows |-> IF (p.steps + 1) % stepsPerRow = 0 \/ (p.src /= 0 /\ p.src /= w)
              THEN Append(p.rows, p.steps + 1) ELSE p.rows,
     src |-> w,
     done |-> p.done]

\* one step outcome from worker w: its symbol goes to the open row, the
\* count goes up by one, and a count that is a multiple of the row width
\* closes the row with the count as its counter
progressStep(p, w) ==
    [steps |-> p.steps + 1,
     row |-> Len(p.rows) + 1,
     rows |-> IF (p.steps + 1) % stepsPerRow = 0
              THEN Append(p.rows, p.steps + 1) ELSE p.rows,
     src |-> w,
     done |-> p.done]

\* the run-complete call: a row left open is closed with the total
progressSummary(p) ==
    [p EXCEPT !.rows = IF p.steps % stepsPerRow /= 0
                       THEN Append(p.rows, p.steps) ELSE p.rows,
              !.done = TRUE]

\* ------------------------------------------------------------------ state
NoWorker == [f |-> 0, r |-> IdleRunner]

Init ==
    /\ steps = <<>>
    /\ features = <<>>
    /\ cfg = DefaultCfg
    /\ phase = "register"
    /\ fi = 0
    /\ r = IdleRunner
    /\ fmtout = <<>>
    /\ calls = <<>>
    /\ tally = ZeroTally
    /\ exit = NoExit
    /\ wk = [w \in 1..MaxWorkers |-> NoWorker]
    /\ buf = <<>>
    /\ flushed = 0
    /\ progress = ZeroProgress

\* ---------------------------------------------------------------- actions
\* suite.Step(expr, h)
Step ==
    /\ phase = "register"
    /\ Len(steps) < MaxDefs
    /\ \E d \in Definitions : steps' = StepAppend(steps, d.expr, d.handler)
    /\ UNCHANGED <<features, cfg, phase, fi, r, fmtout, calls, tally, exit,
                   wk, buf, flushed, progress>>

\* fatal(err) with a non-nil error: the run ends with the option error status
fatal(c) ==
    /\ phase' = "optionError"
    /\ exit' = exitOptionError
    /\ cfg' = c
    /\ UNCHANGED <<steps, features, fi, r, fmtout, calls, tally, wk, buf, flushed, progress>>

\* a Run that goes on to the features whatever the validation said
RunUnchecked ==
    /\ phase = "register"
    /\ \E c \in Configs :
         /\ c.concurrency = 1 \/ ConfigError(c)
         /\ cfg' = c
         /\ \E fs \in FeatureLists : features' = fs
         /\ phase' = "running"
         /\ fi' = 1
         /\ r' = StartRunner
         /\ UNCHANGED <<steps, fmtout, calls, tally, exit, wk, buf, flushed, progress>>

\* suite.Run up to the loop over the features: the flags are parsed, the
\* configuration is validated, the features are loaded
Run ==
    /\ phase = "register"
    /\ \E c \in Configs :
         IF ConfigError(c) THEN fatal(c)
         ELSE /\ c.concurrency = 1
              /\ cfg' = c
              /\ \E fs \in FeatureLists : features' = fs
              /\ phase' = "running"
              /\ fi' = 1
              /\ r' = StartRunner
              /\ UNCHANGED <<steps, fmtout, calls, tally, exit, wk, buf, flushed, progress>>

\* the formatter call of runFeature at pc, made on s.fmt
Emit(n) ==
    /\ r' = n.r
    /\ fmtout' = fmtout \o n.ev
    /\ calls' = calls \o n.call
    /\ phase' = IF n.r.pc = "crashed" THEN "crashed" ELSE phase

\* runFeature, line 183
FeatureNode ==
    /\ phase = "running"
    /\ r.pc = "node"
    /\ Emit(runFeatureNode(features[fi], fi, r))
    /\ UNCHANGED <<steps, features, cfg, fi, tally, exit, wk, buf, flushed, progress>>

\* runFeature, lines 188-190
BackgroundNode ==
    /\ phase = "running"
    /\ r.pc = "bgnode"
    /\ Emit(runBackgroundNode(features[fi], fi, r))
    /\ UNCHANGED <<steps, features, cfg, fi, tally, exit, wk, buf, flushed, progress>>

\* runSteps over the background's steps, one iteration
BackgroundStep ==
    /\ phase = "running"
    /\ r.pc = "bgstep"
    /\ Emit(runBackgroundStep(steps, features[fi], fi, r))
    /\ UNCHANGED <<steps, features, cfg, fi, tally, exit, wk, buf, flushed, progress>>

\* runFeature, lines 194-199
ScenarioNode ==
    /\ phase = "running"
    /\ r.pc = "scnode"
    /\ Emit(runScenarioNode(features[fi], fi, r))
    /\ UNCHANGED <<steps, features, cfg, fi, tally, exit, wk, buf, flushed, progress>>

\* runSteps over the scenario's steps, one iteration
ScenarioStep ==
    /\ phase = "running"
    /\ r.pc = "scstep"
    /\ Emit(runScenarioStep(steps, features[fi], fi, r))
    /\ UNCHANGED <<steps, features, cfg, fi, tally, exit, wk, buf, flushed, progress>>

\* skipSteps over the scenario's steps, one iteration
ScenarioSkip ==
    /\ phase = "running"
    /\ r.pc = "skip"
    /\ Emit(runScenarioSkip(features[fi], fi, r))
    /\ UNCHANGED <<steps, features, cfg, fi, tally, exit, wk, buf, flushed, progress>>

\* a loop that keeps one failure flag for the whole run instead of a flag
\* local to runFeature
NextFeatureKeepsFlag ==
    /\ phase = "running"
    /\ r.pc = "end"
    /\ IF fi < Len(features)
       THEN /\ fi' = fi + 1
            /\ r' = [StartRunner EXCEPT !.failed = r.failed]
            /\ phase' = phase
       ELSE /\ fi' = fi
            /\ r' = r
            /\ phase' = "done"
    /\ UNCHANGED <<steps, features, cfg, fmtout, calls, tally, exit, wk, buf, flushed, progress>>

\* suite.Run, lines 125-127: runFeature has returned, the loop goes on to the
\* next feature or ends
NextFeature ==
    /\ phase = "running"
    /\ r.pc = "end"
    /\ IF fi < Len(features)
       THEN /\ fi' = fi + 1
            /\ r' = StartRunner
            /\ phase' = phase
       ELSE /\ fi' = fi
            /\ r' = r
            /\ phase' = "done"
    /\ UNCHANGED <<steps, features, cfg, fmtout, calls, tally, exit, wk, buf, flushed, progress>>

\* the totals of the run, counted from the outcomes the formatter received
\* once Run has returned; Run makes no formatter call after its loop
Summary ==
    /\ phase = "done"
    /\ tally' = Counts(fmtout)
    /\ phase' = "summarised"
    /\ UNCHANGED <<steps, features, cfg, fi, r, fmtout, calls, exit, wk, buf, flushed, progress>>

\* the exit status of the run
Exit ==
    /\ phase = "summarised"
    /\ exit' = ExitStatus(tally, cfg.strict)
    /\ phase' = "exited"
    /\ UNCHANGED <<steps, features, cfg, fi, r, fmtout, calls, tally, wk, buf, flushed, progress>>

\* ------------------------------------------- the sequential run as a value
\* runFeature run to its end from position rr: the events it emits appended
\* to acc, and whether it returned ("end") or a panic left it ("crashed")
RECURSIVE RunToEnd(_, _, _, _, _)
RECURSIVE RunOn(_, _, _, _, _)
RunToEnd(defs, f, fidx, rr, acc) ==
    IF rr.pc \in {"end", "crashed"} THEN [pc |-> rr.pc, out |-> acc]
    ELSE RunOn(defs, f, fidx, runFeature(defs, f, fidx, rr), acc)

RunOn(defs, f, fidx, n, acc) == RunToEnd(defs, f, fidx, n.r, acc \o n.ev)

\* suite.Run, lines 125-127, from feature i on
RECURSIVE SeqRun(_, _, _, _)
RECURSIVE SeqNext(_, _, _, _)
SeqRun(defs, fs, i, acc) ==
    IF i > Len(fs) THEN [crashed |-> FALSE, out |-> acc]
    ELSE SeqNext(defs, fs, i, RunToEnd(defs, fs[i], i, StartRunner, acc))

SeqNext(defs, fs, i, one) ==
    IF one.pc = "crashed" THEN [crashed |-> TRUE, out |-> one.out]
    ELSE SeqRun(defs, fs, i + 1, one.out)

Next ==
    \/ Step
    \/ Run
    \/ FeatureNode
    \/ BackgroundNode
    \/ BackgroundStep
    \/ ScenarioNode
    \/ ScenarioStep
    \/ ScenarioSkip
    \/ NextFeature
    \/ Summary
    \/ Exit

Spec == Init /\ [][Next]_vars

\* ------------------------------------------------ the concurrent runner
\* registries the concurrent runs are started with
ParRegistries ==
    {<<Def("nil", PatAnyA), Def("nil", PatAny7)>>,
     <<Def("err", PatA), Def("nil", PatAny7)>>,
     <<Def("nil", PatA)>>,
     <<Def("argInt", PatAnyA)>>,
     <<Def("pending", PatAny7), Def("nil", PatAnyA)>>}

InitPar ==
    /\ steps \in ParRegistries
    /\ features = <<>>
    /\ cfg = DefaultCfg
    /\ phase = "register"
    /\ fi = 0
    /\ r = IdleRunner
    /\ fmtout = <<>>
    /\ calls = <<>>
    /\ tally = ZeroTally
    /\ exit = NoExit
    /\ wk = [w \in 1..MaxWorkers |-> NoWorker]
    /\ buf = <<>>
    /\ flushed = 0
    /\ progress = ZeroProgress

\* the run with a worker count above 1: validation, then dispatch
RunConcurrent ==
    /\ phase = "register"
    /\ \E c \in Configs :
         /\ c.concurrency > 1
         /\ IF ConfigError(c) THEN fatal(c)
            ELSE /\ cfg' = c
                 /\ \E fs \in FeatureLists :
                      /\ features' = fs
                      /\ buf' = [i \in 1..Len(fs) |-> <<>>]
                 /\ phase' = "workers"
                 /\ fi' = 1
                 /\ UNCHANGED <<steps, r, fmtout, calls, tally, exit, wk, flushed, progress>>

\* an idle worker is given the next feature of the list
WorkerTake(w) ==
    /\ phase = "workers"
    /\ w <= cfg.concurrency
    /\ wk[w].f = 0
    /\ fi <= Len(features)
    /\ wk' = [wk EXCEPT ![w] = [f |-> fi, r |-> StartRunner]]
    /\ fi' = fi + 1
    /\ UNCHANGED <<steps, features, cfg, phase, r, fmtout, calls, tally, exit,
                   buf, flushed, progress>>

WorkerEmit(w, n) ==
    /\ wk' = [wk EXCEPT ![w].r = n.r]
    /\ buf' = [buf EXCEPT ![wk[w].f] = @ \o n.ev]
    /\ calls' = calls \o n.call
    /\ phase' = IF n.r.pc = "crashed" THEN "crashed" ELSE phase

\* a worker's engine makes its next formatter call, into the private buffer
\* of the feature it runs; a panic that leaves runStep ends the process
WorkerStep(w) ==
    /\ phase = "workers"
    /\ wk[w].f /= 0
    /\ wk[w].r.pc \notin {"end", "crashed"}
    /\ WorkerEmit(w, runFeature(steps, features[wk[w].f], wk[w].f, wk[w].r))
    /\ UNCHANGED <<steps, features, cfg, fi, r, fmtout, tally, exit, flushed, progress>>

\* a worker has finished its feature and is idle again
WorkerDone(w) ==
    /\ phase = "workers"
    /\ wk[w].f /= 0
    /\ wk[w].r.pc = "end"
    /\ wk' = [wk EXCEPT ![w] = NoWorker]
    /\ UNCHANGED <<steps, features, cfg, phase, fi, r, fmtout, calls, tally, exit,
                   buf, flushed, progress>>

\* every feature has been dispatched and every worker has finished
Join ==
    /\ phase = "workers"
    /\ fi > Len(features)
    /\ \A w \in 1..MaxWorkers : wk[w].f = 0
    /\ phase' = "merge"
    /\ UNCHANGED <<steps, features, cfg, fi, r, fmtout, calls, tally, exit, wk,
                   buf, flushed, progress>>

\* a merge that flushes only the first buffer
FlushFirstOnly ==
    /\ phase = "merge"
    /\ flushed < Len(features)
    /\ fmtout' = IF flushed = 0 THEN fmtout \o buf[1] ELSE fmtout
    /\ flushed' = flushed + 1
    /\ UNCHANGED <<steps, features, cfg, phase, fi, r, calls, tally, exit, wk, buf, progress>>

\* a merge that flushes the buffers last feature first
FlushReversed ==
    /\ phase = "merge"
    /\ flushed < Len(features)
    /\ fmtout' = fmtout \o buf[Len(features) - flushed]
    /\ flushed' = flushed + 1
    /\ UNCHANGED <<steps, features, cfg, phase, fi, r, calls, tally, exit, wk, buf, progress>>

\* the merge: the buffer of the next feature, in the order of the feature
\* list, is flushed into the configured formatter
Flush ==
    /\ phase = "merge"
    /\ flushed < Len(features)
    /\ fmtout' = fmtout \o buf[flushed + 1]
    /\ flushed' = flushed + 1
    /\ UNCHANGED <<steps, features, cfg, phase, fi, r, calls, tally, exit, wk, buf, progress>>

\* the merge has flushed every buffer
Merged ==
    /\ phase = "merge"
    /\ flushed = Len(features)
    /\ phase' = "done"
    /\ UNCHANGED <<steps, features, cfg, fi, r, fmtout, calls, tally, exit, wk,
                   buf, flushed, progress>>

NextPar ==
    \/ RunConcurrent
    \/ \E w \in 1..MaxWorkers : WorkerTake(w)
    \/ \E w \in 1..MaxWorkers : WorkerStep(w)
    \/ \E w \in 1..MaxWorkers : WorkerDone(w)
    \/ Join
    \/ Flush
    \/ Merged
    \/ Summary
    \/ Exit

SpecPar == InitPar /\ [][NextPar]_vars

\* ------------------------------------------------- the exit decision alone
Tallies == [passed : 0..MaxCount, failed : 0..MaxCount, skipped : 0..MaxCount,
            pending : 0..MaxCount, undefined : 0..MaxCount]

InitDecision ==
    /\ steps = <<>>
    /\ features = <<>>
    /\ cfg \in {c \in Configs : ~ConfigError(c)}
    /\ phase = "summarised"
    /\ fi = 0
    /\ r = IdleRunner
    /\ fmtout = <<>>
    /\ calls = <<>>
    /\ tally \in Tallies
    /\ exit = NoExit
    /\ wk = [w \in 1..MaxWorkers |-> NoWorker]
    /\ buf = <<>>
    /\ flushed = 0
    /\ progress = ZeroProgress

SpecDecision == InitDecision /\ [][Exit]_vars

\* ================================================================ claims
\* the text of the step a formatter call or a handler invocation is about
StepText(e) ==
    IF e.part = "background" THEN features[e.f].background.steps[e.k]
    ELSE features[e.f].scenarios[e.si][e.k]

Matches(expr, text) == Len(FindStringSubmatch(expr, text)) > 0

IsOutcome(e) == e.type \in Outcomes

\* two records are about steps of the same execution of one step list
SameList(a, b) == a.f = b.f /\ a.part = b.part /\ a.si = b.si

\* the lowest registration index among the definitions matching text
IsLowestMatch(d, text) ==
    /\ d \in 1..Len(steps)
    /\ Matches(steps[d].expr, text)
    /\ \A j \in 1..(d - 1) : ~Matches(steps[j].expr, text)

\* C1: step resolution selects the definition with the lowest registration
\* index among all definitions matching the step text, for every registry and
\* every text; the handler invoked for a step, and the definition reported
\* with its outcome, is that definition and no other.
C1_FirstMatchWins ==
    /\ \A t \in Texts :
         IF \E d \in 1..Len(steps) : Matches(steps[d].expr, t)
         THEN IsLowestMatch(Match(steps, t), t)
         ELSE Match(steps, t) = 0
    /\ \A i \in DOMAIN calls :
         /\ IsLowestMatch(calls[i].def, StepText(calls[i]))
         /\ \A j \in DOMAIN calls : calls[j] = calls[i] => j = i
    /\ \A i \in DOMAIN fmtout :
         fmtout[i].type \in {"Passed", "Failed"} =>
            IsLowestMatch(fmtout[i].def, StepText(fmtout[i]))

\* a handler was invoked for a step that two definitions with different
\* handlers match, and it was the first one's
C1_Witness ==
    /\ Len(steps) = 2
    /\ steps[1].handler /= steps[2].handler
    /\ \E i \in DOMAIN calls :
         /\ Matches(steps[1].expr, StepText(calls[i]))
         /\ Matches(steps[2].expr, StepText(calls[i]))
         /\ calls[i].def = 1

\* C2: within one run of a step list, once a step is reported Failed, Pending
\* or Undefined every later step of the list is reported Skipped, and the
\* handler of step k is invoked only if every step before k was Passed.
C2_SkipAfterFailure ==
    /\ \A i \in DOMAIN fmtout : \A j \in DOMAIN fmtout :
         (/\ IsOutcome(fmtout[i]) /\ IsOutcome(fmtout[j])
          /\ SameList(fmtout[i], fmtout[j])
          /\ fmtout[i].k < fmtout[j].k
          /\ fmtout[i].type /= "Passed") => fmtout[j].type = "Skipped"
    /\ \A c \in DOMAIN calls : \A k \in 1..(calls[c].k - 1) :
         \E i \in DOMAIN fmtout :
            /\ SameList(fmtout[i], calls[c])
            /\ fmtout[i].k = k
            /\ fmtout[i].type = "Passed"

\* a step failed and the step after it, which a definition matches, was
\* reported Skipped
C2_Witness ==
    \E i \in DOMAIN fmtout : \E j \in DOMAIN fmtout :
        /\ SameList(fmtout[i], fmtout[j])
        /\ fmtout[i].type = "Failed"
        /\ fmtout[j].k = fmtout[i].k + 1
        /\ fmtout[j].type = "Skipped"
        /\ Match(steps, StepText(fmtout[j])) /= 0

\* the outcome the handler's return value stands for
OutcomeOfError(err) ==
    CASE err = "nil" -> "Passed"
      [] err = "errPending" -> "Pending"
      [] OTHER -> "Failed"

\* C3: for an executed step that matches a definition the reported outcome
\* follows the handler's return value: nil is Passed, the pending sentinel is
\* Pending, any other error is Failed.
C3_OutcomeFollowsReturn ==
    \A i \in DOMAIN fmtout :
        (IsOutcome(fmtout[i]) /\ fmtout[i].def /= 0) =>
            fmtout[i].type = OutcomeOfError(fmtout[i].err)

\* an executed step that no definition matches
Unmatched(e) ==
    /\ IsOutcome(e)
    /\ e.type /= "Skipped"
    /\ Match(steps, StepText(e)) = 0

Panicked(c) ==
    HandleStep(steps[c.def].handler, MatchArgs(steps, StepText(c), c.def)).panic /= "none"

\* C5: every runtime fault raised inside a handler, whatever its value, is
\* caught in runStep and becomes exactly one Failed outcome for that step; it
\* never terminates the run.
C5_PanicBecomesFailed ==
    /\ phase /= "crashed"
    /\ \A c \in DOMAIN calls :
         Panicked(calls[c]) =>
            Cardinality({i \in DOMAIN fmtout :
                            /\ SameList(fmtout[i], calls[c])
                            /\ fmtout[i].k = calls[c].k
                            /\ fmtout[i].type = "Failed"}) = 1

Succeeded(t, strict) ==
    t.failed = 0 /\ (strict => (t.pending = 0 /\ t.undefined = 0))

\* C6: for all final totals and both values of the strict flag the run is a
\* success exactly when failed = 0 and (strict => pending = 0 and
\* undefined = 0); strict mode turns a success into a failure exactly when
\* pending or undefined is nonzero while failed is zero; a run with a Failed
\* step fails whatever the strict flag.
C6_StrictDecision ==
    phase = "exited" =>
        /\ exit \in {exitSuccess, exitFailure}
        /\ (exit = exitSuccess) <=> Succeeded(tally, cfg.strict)
        /\ (ExitStatus(tally, FALSE) = exitSuccess /\ ExitStatus(tally, TRUE) = exitFailure)
             <=> ((tally.pending > 0 \/ tally.undefined > 0) /\ tally.failed = 0)
        /\ tally.failed > 0 => exit = exitFailure

\* a strict run without failed steps ended in failure over an undefined step
C6_Witness ==
    /\ phase = "exited"
    /\ cfg.strict
    /\ tally.failed = 0
    /\ tally.pending = 0
    /\ tally.undefined > 0
    /\ exit = exitFailure

Finished == phase \in {"done", "summarised", "exited"}

\* C7: the totals of a run with more than one worker, under every
\* interleaving of the workers, are those of the sequential run of the same
\* features with the same registry, and so is the status: the same exit
\* status when the run completes, and a run that a panic ends is one the
\* sequential run ends by a panic too.
C7_CountsIndependentOfWorkers ==
    /\ Finished =>
         /\ ~SeqRun(steps, features, 1, <<>>).crashed
         /\ Counts(fmtout) = Counts(SeqRun(steps, features, 1, <<>>).out)
    /\ phase \in {"summarised", "exited"} =>
         tally = Counts(SeqRun(steps, features, 1, <<>>).out)
    /\ phase = "exited" =>
         exit = ExitStatus(Counts(SeqRun(steps, features, 1, <<>>).out), cfg.strict)
    /\ phase = "crashed" => SeqRun(steps, features, 1, <<>>).crashed

\* a run with two workers over two features ended with passed, failed and
\* skipped steps in its totals
C7_Witness ==
    /\ phase = "exited"
    /\ cfg.concurrency > 1
    /\ Len(features) = 2
    /\ tally.passed > 0
    /\ tally.failed > 0
    /\ tally.skipped > 0

\* C8: a configuration error (more than one worker with a formatter without
\* support for concurrency, an unknown formatter name, an unavailable path) is
\* detected before dispatch: no node is emitted, no handler is invoked, and
\* the exit status is the option error value, which is neither the success
\* nor the test failure value.
C8_OptionErrorBeforeDispatch ==
    /\ ConfigError(cfg) <=> phase = "optionError"
    /\ ConfigError(cfg) =>
         /\ fmtout = <<>>
         /\ calls = <<>>
         /\ exit = exitOptionError
         /\ exit \notin {exitSuccess, exitFailure}
    /\ exit = exitOptionError => ConfigError(cfg)

\* a run asked for several workers with the pretty formatter, with steps
\* registered, ended as an option error
C8_Witness ==
    /\ phase = "optionError"
    /\ cfg.concurrency > 1
    /\ cfg.format = "pretty"
    /\ Len(steps) > 0

\* the place of an event in the source order of its feature
PartRank(e) == IF e.part = "feature" THEN 0 ELSE IF e.part = "background" THEN 1 ELSE 2

Before(a, b) ==
    \/ a.si < b.si
    \/ a.si = b.si /\ PartRank(a) < PartRank(b)
    \/ a.si = b.si /\ PartRank(a) = PartRank(b) /\ a.k < b.k

\* C9: with more than one worker the events delivered to the configured
\* formatter form one contiguous block per feature, the blocks in the order
\* of the feature list, each block the feature's node followed by its events
\* in source order; nothing is delivered before the workers have joined and
\* each buffer holds the events of its own feature only.
C9_BlocksPerFeatureInOrder ==
    /\ \A i \in DOMAIN fmtout : \A j \in DOMAIN fmtout :
         i < j =>
            /\ fmtout[i].f <= fmtout[j].f
            /\ fmtout[i].f = fmtout[j].f => Before(fmtout[i], fmtout[j])
    /\ \A i \in DOMAIN fmtout :
         (i = 1 \/ fmtout[i - 1].f /= fmtout[i].f) =>
            fmtout[i] = NodeEvent(fmtout[i].f, "feature", 0)
    /\ phase = "workers" => fmtout = <<>>
    /\ \A f \in DOMAIN buf : \A i \in DOMAIN buf[f] : buf[f][i].f = f
    /\ Finished =>
         \A f \in DOMAIN features :
            \E i \in DOMAIN fmtout : fmtout[i] = NodeEvent(f, "feature", 0)

\* two workers ran two features and the formatter holds the step outcomes of
\* both
C9_Witness ==
    /\ phase = "done"
    /\ cfg.concurrency > 1
    /\ \E i \in DOMAIN fmtout : IsOutcome(fmtout[i]) /\ fmtout[i].f = 1
    /\ \E i \in DOMAIN fmtout : IsOutcome(fmtout[i]) /\ fmtout[i].f = 2

\* the outcome events for step k of the background, or of scenario si, of
\* feature f
OutcomesOfBackgroundStep(f, k) ==
    {i \in DOMAIN fmtout :
        /\ IsOutcome(fmtout[i])
        /\ fmtout[i].f = f
        /\ fmtout[i].part = "background"
        /\ fmtout[i].k = k}

OutcomesOfScenarioStep(f, si, k) ==
    {i \in DOMAIN fmtout :
        /\ IsOutcome(fmtout[i])
        /\ fmtout[i].f = f
        /\ fmtout[i].part = "scenario"
        /\ fmtout[i].si = si
        /\ fmtout[i].k = k}

\* C10: in every run the formatter receives exactly one outcome event for
\* every step of every scenario and of every background of every feature,
\* whatever the handlers return or raise.
C10_OneOutcomePerStep ==
    phase \in {"done", "crashed"} =>
        \A f \in DOMAIN features :
            /\ \A k \in DOMAIN features[f].background.steps :
                  Cardinality(OutcomesOfBackgroundStep(f, k)) = 1
            /\ \A si \in DOMAIN features[f].scenarios :
                  \A k \in DOMAIN features[f].scenarios[si] :
                     Cardinality(OutcomesOfScenarioStep(f, si, k)) = 1

\* the events of feature f that report the Background's structural node
BackgroundNodes(f) ==
    {i \in DOMAIN fmtout :
        fmtout[i].f = f /\ fmtout[i].type = "Node" /\ fmtout[i].part = "background"}

\* the outcomes reported for step k of the Background of feature f
BackgroundOutcomes(f, k) ==
    {i \in DOMAIN fmtout :
        fmtout[i].f = f /\ IsOutcome(fmtout[i])
        /\ fmtout[i].part = "background" /\ fmtout[i].k = k}

\* C11: for a Feature that has a Background and at least one Scenario, the
\* Background's structural node and the outcome of each of its steps are
\* reported once per run of the Feature, not once per Scenario.
C11_BackgroundReportedOnce ==
    \A f \in DOMAIN features :
        (features[f].background.has /\ Len(features[f].scenarios) >= 1) =>
            /\ Cardinality(BackgroundNodes(f)) <= 1
            /\ \A k \in DOMAIN features[f].background.steps :
                  Cardinality(BackgroundOutcomes(f, k)) <= 1
            /\ (phase = "done" \/ fi > f) =>
                  /\ Cardinality(BackgroundNodes(f)) = 1
                  /\ \A k \in DOMAIN features[f].background.steps :
                        Cardinality(BackgroundOutcomes(f, k)) = 1

\* an outcome that is neither Passed nor Skipped
NonPassing(e) == IsOutcome(e) /\ e.type \in {"Failed", "Pending", "Undefined"}

\* C12: once a Background step is reported Failed, Pending or Undefined before
\* some Scenario, the failure flag of the Feature stays set to the end of the
\* Feature: the Background is not run again, and every step of that Scenario
\* and of every later Scenario is reported Skipped with no handler invoked.
C12_BackgroundFailureSticks ==
    \A i \in DOMAIN fmtout :
        (NonPassing(fmtout[i]) /\ fmtout[i].part = "background") =>
            /\ \A j \in DOMAIN fmtout :
                  (fmtout[j].f = fmtout[i].f /\ fmtout[j].part = "background")
                      => fmtout[j].si <= fmtout[i].si
            /\ \A j \in DOMAIN fmtout :
                  (fmtout[j].f = fmtout[i].f /\ fmtout[j].part = "scenario"
                   /\ IsOutcome(fmtout[j]) /\ fmtout[j].si >= fmtout[i].si)
                      => (fmtout[j].type = "Skipped" /\ j > i)
            /\ \A c \in DOMAIN calls :
                  calls[c].f = fmtout[i].f =>
                      \/ calls[c].si < fmtout[i].si
                      \/ /\ calls[c].si = fmtout[i].si
                         /\ calls[c].part = "background"
                         /\ calls[c].k <= fmtout[i].k
            /\ (phase = "running" /\ fi = fmtout[i].f /\ r.pc /= "bgstep")
                  => r.failed
            /\ (phase = "done" \/ fi > fmtout[i].f) =>
                  \A si \in fmtout[i].si..Len(features[fmtout[i].f].scenarios) :
                      \A k \in DOMAIN features[fmtout[i].f].scenarios[si] :
                          \E j \in DOMAIN fmtout :
                              fmtout[j] = Event("Skipped", fmtout[i].f,
                                                "scenario", si, k, 0, "nil")

\* a Background step failed before the first Scenario and a step of the
\* second Scenario, which a definition matches, was reported Skipped
C12_Witness ==
    \E i \in DOMAIN fmtout : \E j \in DOMAIN fmtout :
        /\ NonPassing(fmtout[i])
        /\ fmtout[i].part = "background"
        /\ fmtout[i].si = 1
        /\ fmtout[j].f = fmtout[i].f
        /\ fmtout[j].part = "scenario"
        /\ fmtout[j].si = 2
        /\ fmtout[j].type = "Skipped"
        /\ Match(steps, StepText(fmtout[j])) /= 0

\* the run-complete events the formatter received
SummaryEvents == {i \in DOMAIN fmtout : fmtout[i].type = "Summary"}

\* C13: the run-complete (summary) event is delivered to the formatter
\* exactly once per run, and only after the last structural or step-outcome
\* event of every Feature.
C13_SummaryOnceAtEnd ==
    /\ Cardinality(SummaryEvents) <= 1
    /\ \A i \in SummaryEvents : i = Len(fmtout) /\ phase /= "running"
    /\ phase = "exited" => Cardinality(SummaryEvents) = 1

\* the events the formatter received for feature f, in the order received
EventsOf(f) == SelectSeq(fmtout, LAMBDA e : e.f = f)

\* the events of feature f when runFeature runs it alone with the registry
AloneRun(f) == RunToEnd(steps, features[f], f, StartRunner, <<>>)

IsPrefix(a, b) == Len(a) <= Len(b) /\ a = SubSeq(b, 1, Len(a))

\* the events ev reported so far for feature f agree with the run alone
AgreesWithAlone(f, ev, alone) ==
    /\ (phase = "register" \/ f > fi) => ev = <<>>
    /\ (phase \in {"running", "crashed"} /\ f = fi) =>
          /\ IsPrefix(ev, alone.out)
          /\ r.pc \in {"end", "crashed"} => (ev = alone.out /\ alone.pc = r.pc)
    /\ (Finished \/ (phase \in {"running", "crashed"} /\ f < fi)) =>
          (ev = alone.out /\ alone.pc = "end")

\* C14: the failure flag of one Feature never affects another Feature: what
\* is reported for a Feature is what is reported when it is run alone with
\* the same registry, whatever the outcomes of the Features before it.
C14_FeaturesIndependent ==
    \A f \in DOMAIN features : AgreesWithAlone(f, EventsOf(f), AloneRun(f))

\* a Feature ran to its end with a passing step after a Feature whose
\* failure flag was set by a non-passing Background step
C14_Witness ==
    /\ phase = "done"
    /\ \E f \in DOMAIN features :
         /\ \E i \in DOMAIN fmtout :
               /\ fmtout[i].f < f
               /\ NonPassing(fmtout[i])
               /\ fmtout[i].part = "background"
         /\ \E j \in DOMAIN fmtout :
               /\ fmtout[j].f = f
               /\ fmtout[j].type = "Passed"
               /\ fmtout[j].part = "scenario"

\* C15: in a sequential run the events of one Feature are strictly ordered:
\* the Feature node comes first, the Background's events precede the events
\* of the Scenarios, the Scenarios come in source order, each Scenario node
\* precedes its step outcomes, and the step outcomes of a list come in source
\* order.
C15_FeatureEventsOrdered ==
    \A i \in DOMAIN fmtout : \A j \in DOMAIN fmtout :
        (i < j /\ fmtout[i].f = fmtout[j].f) =>
            /\ fmtout[j].part /= "feature"
            /\ ~(fmtout[i].part = "scenario" /\ fmtout[j].part = "background")
            /\ (fmtout[i].part = "scenario" /\ fmtout[j].part = "scenario")
                  => fmtout[i].si <= fmtout[j].si
            /\ SameList(fmtout[i], fmtout[j]) =>
                  /\ fmtout[j].type /= "Node"
                  /\ IsOutcome(fmtout[i]) => fmtout[i].k < fmtout[j].k

\* --------------------------------------- the progress formatter on its own
InitProgress ==
    /\ steps = <<>>
    /\ features = <<>>
    /\ cfg \in {c \in Configs : ~ConfigError(c)}
    /\ phase = "formatting"
    /\ fi = 0
    /\ r = IdleRunner
    /\ fmtout = <<>>
    /\ calls = <<>>
    /\ tally = ZeroTally
    /\ exit = NoExit
    /\ wk = [w \in 1..MaxWorkers |-> NoWorker]
    /\ buf = <<>>
    /\ flushed = 0
    /\ progress = ZeroProgress

\* the formatter receives one step outcome, produced by one of the workers
\* of the run (worker 1 alone in a sequential run)
ProgressStep ==
    /\ phase = "formatting"
    /\ ~progress.done
    /\ progress.steps < MaxOutcomes
    /\ \E w \in 1..cfg.concurrency : progress' = progressStep(progress, w)
    /\ UNCHANGED <<steps, features, cfg, phase, fi, r, fmtout, calls, tally,
                   exit, wk, buf, flushed>>

\* the formatter receives the run-complete call
ProgressSummary ==
    /\ phase = "formatting"
    /\ ~progress.done
    /\ progress' = progressSummary(progress)
    /\ UNCHANGED <<steps, features, cfg, phase, fi, r, fmtout, calls, tally,
                   exit, wk, buf, flushed>>

NextProgress ==
    \/ ProgressStep
    \/ ProgressSummary

SpecProgress == InitProgress /\ [][NextProgress]_vars

\* the smallest number of rows of width stepsPerRow that hold n symbols
RowOf(n) == (n + stepsPerRow - 1) \div stepsPerRow

\* C16: in the progress view with row width stepsPerRow (70) the n-th step
\* outcome falls in row ceil(n / stepsPerRow) whatever worker produced it, and
\* the counters at the row ends are 70, 140, ..., total: a function of the
\* number of outcomes alone, so the same in a sequential and a parallel run.
C16_RowsDependOnCountOnly ==
    /\ progress.steps > 0 => progress.row = RowOf(progress.steps)
    /\ Len(progress.rows) = IF progress.done THEN RowOf(progress.steps)
                            ELSE progress.steps \div stepsPerRow
    /\ \A i \in DOMAIN progress.rows :
          progress.rows[i] = IF i * stepsPerRow <= progress.steps
                             THEN i * stepsPerRow ELSE progress.steps

\* a parallel run delivered more than two rows of outcomes, the last one from
\* a worker other than the first, and the open row was closed with the total
C16_Witness ==
    /\ progress.done
    /\ cfg.concurrency > 1
    /\ progress.src > 1
    /\ Len(progress.rows) = 3
    /\ progress.rows[3] = progress.steps
    /\ progress.steps % stepsPerRow /= 0

\* ------------------------------------------- registration during the run
\* definitions a handler registers while the features are running
LateDefinitions == {Def("nil", PatAny7), Def("err", PatAnyA)}

\* suite.Step(expr, h) called while Run is in its loop over the features,
\* for example from inside a handler: Step has no check of the state of the
\* run, it appends
StepLate ==
    /\ phase = "running"
    /\ Len(steps) < MaxDefs
    /\ \E d \in LateDefinitions : steps' = StepAppend(steps, d.expr, d.handler)
    /\ UNCHANGED <<features, cfg, phase, fi, r, fmtout, calls, tally, exit,
                   wk, buf, flushed, progress>>

NextLate ==
    \/ Next
    \/ StepLate

SpecLate == Init /\ [][NextLate]_vars

\* C17: once the execution of the features has started the registry's list
\* of definitions is never changed: resolution and execution leave it as it
\* is, and a registration attempted after the start is reported as an error
\* instead of being appended.
C17_RegistryFrozenOnceRunning ==
    [][(phase \in {"running", "done", "summarised", "exited", "crashed"})
          => (steps' = steps)]_vars

\* the Background of feature f was run for the loop iteration of scenario si
BackgroundRanFor(f, si) ==
    \E j \in DOMAIN fmtout : fmtout[j] = NodeEvent(f, "background", si)

\* C18: a non-passing step among a Scenario's own steps does not set the
\* failure flag of the Feature: the flag is set only by a non-passing
\* Background step, and the next Scenario still has the Background run
\* before it and its own steps executed instead of skipped.
C18_ScenarioFailureNotSticky ==
    /\ (phase = "running" /\ r.failed) =>
          \E i \in DOMAIN fmtout :
              /\ fmtout[i].f = fi
              /\ fmtout[i].part = "background"
              /\ NonPassing(fmtout[i])
    /\ \A i \in DOMAIN fmtout : \A j \in DOMAIN fmtout :
          (/\ NonPassing(fmtout[i])
           /\ fmtout[i].part = "scenario"
           /\ fmtout[j].f = fmtout[i].f
           /\ fmtout[j].part = "scenario"
           /\ fmtout[j].si = fmtout[i].si + 1) =>
              /\ features[fmtout[i].f].background.has
                    => BackgroundRanFor(fmtout[i].f, fmtout[j].si)
              /\ (IsOutcome(fmtout[j]) /\ fmtout[j].k = 1) =>
                    \/ fmtout[j].type /= "Skipped"
                    \/ \E b \in DOMAIN fmtout :
                          /\ fmtout[b].f = fmtout[j].f
                          /\ fmtout[b].part = "background"
                          /\ fmtout[b].si = fmtout[j].si
                          /\ NonPassing(fmtout[b])

\* a step of a Scenario failed, and in the next Scenario of the Feature the
\* Background was run again and the Scenario's step was executed and passed
C18_Witness ==
    \E i \in DOMAIN fmtout : \E j \in DOMAIN fmtout :
        /\ NonPassing(fmtout[i])
        /\ fmtout[i].part = "scenario"
        /\ fmtout[j].f = fmtout[i].f
        /\ fmtout[j].part = "scenario"
        /\ fmtout[j].si = fmtout[i].si + 1
        /\ fmtout[j].type = "Passed"
        /\ BackgroundRanFor(fmtout[i].f, fmtout[j].si)
        /\ \E c \in DOMAIN calls :
              SameList(calls[c], fmtout[j]) /\ calls[c].k = fmtout[j].k

\* the outcomes reported for the step list of event e, by step index
ListOutcomes(e) ==
    {j \in DOMAIN fmtout : IsOutcome(fmtout[j]) /\ SameList(fmtout[j], e)}

\* C19: the outcomes of one walk over a step list (a Scenario or one run of
\* the Background) have the shape Passed*, then at most one outcome that is
\* neither Passed nor Skipped, then Skipped*: a Skipped is never followed by a
\* Passed, and inside runSteps a Skipped comes only after a non-passing step.
C19_OutcomeShape ==
    \A i \in DOMAIN fmtout :
        IsOutcome(fmtout[i]) =>
            /\ \A j \in ListOutcomes(fmtout[i]) :
                  /\ (j < i) <=> (fmtout[j].k < fmtout[i].k)
                  /\ (j < i /\ fmtout[j].type = "Skipped")
                        => fmtout[i].type = "Skipped"
                  /\ (j < i /\ NonPassing(fmtout[j]))
                        => fmtout[i].type = "Skipped"
                  /\ (j < i /\ fmtout[i].type = "Passed")
                        => fmtout[j].type = "Passed"
            /\ Cardinality({j \in ListOutcomes(fmtout[i]) : NonPassing(fmtout[j])}) <= 1
            /\ fmtout[i].type = "Skipped" =>
                  \/ \E j \in ListOutcomes(fmtout[i]) : j < i /\ NonPassing(fmtout[j])
                  \/ /\ fmtout[i].part = "scenario"
                     /\ \A j \in ListOutcomes(fmtout[i]) : fmtout[j].type = "Skipped"

\* one step list was reported as Passed, then a non-passing step, then Skipped
C19_Witness ==
    \E i \in DOMAIN fmtout :
        /\ NonPassing(fmtout[i])
        /\ \E j \in ListOutcomes(fmtout[i]) :
              fmtout[j].k = fmtout[i].k - 1 /\ fmtout[j].type = "Passed"
        /\ \E j \in ListOutcomes(fmtout[i]) :
              fmtout[j].k = fmtout[i].k + 1 /\ fmtout[j].type = "Skipped"

\* C20: for a Feature that has a Background and no Scenario, runFeature
\* reports the Feature node and nothing else: no Background node, no step
\* outcome, and no handler is invoked.
C20_BackgroundAloneNotRun ==
    \A f \in DOMAIN features :
        (features[f].background.has /\ Len(features[f].scenarios) = 0) =>
            /\ \A i \in DOMAIN fmtout :
                  fmtout[i].f = f => fmtout[i] = NodeEvent(f, "feature", 0)
            /\ \A c \in DOMAIN calls : calls[c].f /= f
            /\ Len(EventsOf(f)) <= 1
            /\ (phase = "running" /\ fi = f) => r.pc \in {"node", "end"}
            /\ (Finished \/ fi > f) => EventsOf(f) = <<NodeEvent(f, "feature", 0)>>

\* runFeature returned for a Feature with a Background and no Scenario, with
\* a definition registered that matches the Background's first step
C20_Witness ==
    \E f \in DOMAIN features :
        /\ features[f].background.has
        /\ Len(features[f].scenarios) = 0
        /\ Match(steps, features[f].background.steps[1]) /= 0
        /\ fi > f
        /\ EventsOf(f) = <<NodeEvent(f, "feature", 0)>>

====
